---------------------------- MODULE Spec2Model ----------------------------
(***************************************************************************)
(* Model of the MDX content review action (actions/mdx-review/index.ts,    *)
(* whose text is carried in src/actions/mdx-review/README.md, lines        *)
(* 215-648).  A text is a sequence of one-character strings.               *)
(***************************************************************************)
EXTENDS Integers, Sequences, FiniteSets, TLC

VARIABLES
    fn,             \* the utility function that was applied ("none" before)
    arg,            \* its argument
    ret,            \* its return value
    inputs,         \* the action inputs, as core.getInput reads them
    context,        \* github.context: the pull request and its labels
    prFiles,        \* the files pulls.listFiles answers with
    pc,             \* where run() stands: the call it awaits or the exit it took
    config,         \* the ActionConfig of getConfig
    allFiles,       \* run: allFiles
    filesToReview,  \* run: filesToReview
    idx,            \* run: position of the for loop in filesToReview
    cur,            \* run: file and sanitized content of the pending model call
    reviews,        \* run: reviews
    totalTokens,    \* run: totalTokens
    warnings,       \* the core.warning lines written so far
    failed,         \* the core.setFailed message, "none" when not failed
    outputs,        \* the core.setOutput values
    listCalls,      \* number of pulls.listFiles calls made
    contentCalls,   \* the repos.getContent calls made, with their results
    llmCalls,       \* the generateObject calls made, with their outcomes
    sinkCalls       \* the pulls.createReview calls made, with their outcomes

fnVars == <<fn, arg, ret>>
envVars == <<inputs, context, prFiles>>
runVars == <<pc, config, allFiles, filesToReview, idx, cur, reviews,
             totalTokens, warnings, failed, outputs>>
callVars == <<listCalls, contentCalls, llmCalls, sinkCalls>>
vars == <<fnVars, envVars, runVars, callVars>>

(***************************************************************************)
(* Bounds of the model.                                                    *)
(***************************************************************************)
MaxSegs == 3        \* an input text is made of at most this many segments
MaxRatings == 3     \* longest list of per-file ratings handed to the mean
MaxFilesInput == 2  \* largest max_files input
BeyondLine == 3     \* a line number past the last line of every file content
MaxCeiling == 4     \* largest budget ceiling considered, in tokens
MaxTemplate == 3    \* a prompt template is made of at most this many pieces

(***************************************************************************)
(* Characters and character classes of the regular expressions.            *)
(***************************************************************************)
Str(n, c) == [i \in 1..n |-> c]

Letters == {"a", "b", "B", "e", "E", "r", "R", "A", "g", "h", "p",
            "D", "C", "T", "K", "Y", "O", "N"}

\* [A-Za-z0-9]
IsAlnum(c) == c \in Letters

\* [A-Za-z0-9_-]
IsKeyChar(c) == IsAlnum(c) \/ c \in {"_", "-"}

\* \s
IsSpace(c) == c \in {" ", "\n", "\t"}

\* the i flag: characters compared after case folding
Fold(c) ==
    CASE c = "B" -> "b"
      [] c = "E" -> "e"
      [] c = "A" -> "a"
      [] c = "R" -> "r"
      [] OTHER -> c

KeyMinLen == 32
TokenPrefix == <<"g", "h", "p", "_">>
TokenSuffixLen == 36
BearerWord == <<"b", "e", "a", "r", "e", "r">>

KeyMarker ==
    <<"[", "R", "E", "D", "A", "C", "T", "E", "D", "_", "K", "E", "Y", "]">>
TokenMarker ==
    <<"[", "R", "E", "D", "A", "C", "T", "E", "D", "_", "T", "O", "K", "E", "N", "]">>
BearerMarkerNoBrackets ==
    <<"B", "e", "a", "r", "e", "r", " ", "R", "E", "D", "A", "C", "T", "E", "D">>
BearerMarker ==
    <<"B", "e", "a", "r", "e", "r", " ", "[", "R", "E", "D", "A", "C", "T", "E", "D", "]">>

(***************************************************************************)
(* Matching at a position.  Each XxxMatchLen(s, i) is the length of the    *)
(* match of the expression that starts at position i of s, 0 when the      *)
(* expression does not match there (no expression matches the empty text). *)
(***************************************************************************)
RECURSIVE KeyRunLen(_, _)
KeyRunLen(s, i) ==
    IF i > Len(s) \/ ~IsKeyChar(s[i]) THEN 0 ELSE 1 + KeyRunLen(s, i + 1)

RECURSIVE SpaceRunLen(_, _)
SpaceRunLen(s, i) ==
    IF i > Len(s) \/ ~IsSpace(s[i]) THEN 0 ELSE 1 + SpaceRunLen(s, i + 1)

\* /[A-Za-z0-9_-]{32,}/ : greedy, takes the whole run
KeyMatchLen(s, i) ==
    LET n == KeyRunLen(s, i) IN IF n >= KeyMinLen THEN n ELSE 0

\* /ghp_[A-Za-z0-9]{36}/ : the prefix and exactly 36 characters
TokenMatchLen(s, i) ==
    LET n == Len(TokenPrefix) + TokenSuffixLen IN
    IF /\ i + n - 1 <= Len(s)
       /\ SubSeq(s, i, i + Len(TokenPrefix) - 1) = TokenPrefix
       /\ \A k \in (i + Len(TokenPrefix))..(i + n - 1) : IsAlnum(s[k])
    THEN n ELSE 0

\* /Bearer\s+[A-Za-z0-9_-]+/i
BearerMatchLen(s, i) ==
    LET w == Len(BearerWord) IN
    IF /\ i + w - 1 <= Len(s)
       /\ \A k \in 1..w : Fold(s[i + k - 1]) = BearerWord[k]
    THEN LET sp == SpaceRunLen(s, i + w)
             tk == KeyRunLen(s, i + w + sp)
         IN  IF sp >= 1 /\ tk >= 1 THEN w + sp + tk ELSE 0
    ELSE 0

(***************************************************************************)
(* String.prototype.replace with a g-flagged expression: scan from the     *)
(* left, replace each match by the marker and go on after the match.       *)
(***************************************************************************)
RECURSIVE ReplaceKeys(_, _)
ReplaceKeys(s, i) ==
    IF i > Len(s) THEN <<>>
    ELSE LET n == KeyMatchLen(s, i) IN
         IF n > 0 THEN KeyMarker \o ReplaceKeys(s, i + n)
                  ELSE <<s[i]>> \o ReplaceKeys(s, i + 1)

RECURSIVE ReplaceTokens(_, _)
ReplaceTokens(s, i) ==
    IF i > Len(s) THEN <<>>
    ELSE LET n == TokenMatchLen(s, i) IN
         IF n > 0 THEN TokenMarker \o ReplaceTokens(s, i + n)
                  ELSE <<s[i]>> \o ReplaceTokens(s, i + 1)

RECURSIVE ReplaceBearers(_, _)
ReplaceBearers(s, i) ==
    IF i > Len(s) THEN <<>>
    ELSE LET n == BearerMatchLen(s, i) IN
         IF n > 0 THEN BearerMarker \o ReplaceBearers(s, i + n)
                  ELSE <<s[i]>> \o ReplaceBearers(s, i + 1)

sanitizeContent(content) ==
    ReplaceBearers(ReplaceTokens(ReplaceKeys(content, 1), 1), 1)

estimateTokens(text) == (Len(text) + 3) \div 4

\* the number of lines of a text: its line breaks plus one
LineCount(text) == Cardinality({i \in 1..Len(text) : text[i] = "\n"}) + 1

(***************************************************************************)
(* Input texts: up to MaxSegs segments, each one of a few pieces chosen    *)
(* so that every expression has matching and nearly matching inputs.       *)
(***************************************************************************)
Pieces ==
    { <<"a">>, Str(KeyMinLen - 1, "a"), Str(TokenSuffixLen, "a"),
      TokenPrefix, <<"B", "e", "a", "r", "e", "r">>,
      <<"b", "E", "A", "R", "E", "R">>, <<" ">>, <<"\n">>, <<".">> }

RECURSIVE Concat(_)
Concat(ss) == IF ss = <<>> THEN <<>> ELSE Head(ss) \o Concat(Tail(ss))

Texts == { Concat(ss) : ss \in UNION { [1..n -> Pieces] : n \in 0..MaxSegs } }

(***************************************************************************)
(* The pull request seen by run(): paths, file contents, model answers.    *)
(***************************************************************************)
PathA == <<"a", ".", "m", "d", "x">>
PathB == <<"b", ".", "m", "d", "x">>
PathC == <<"c", ".", "m", "d">>
Paths == {PathA, PathB, PathC}

\* every list of distinct paths
FileLists ==
    { fs \in UNION { [1..n -> Paths] : n \in 0..Cardinality(Paths) } :
        \A i, j \in DOMAIN fs : i # j => fs[i] # fs[j] }

\* head-revision contents: two plain lines; a Bearer header broken over two
\* lines; a line holding a long key and a second line
Contents ==
    { <<"a", "\n", ".">>,
      <<"B", "e", "a", "r", "e", "r", "\n", "a">>,
      Str(TokenSuffixLen, "a") \o <<"\n", ".">> }

Providers == {"", "Anthropic", "mistral"}
\* approval_threshold inputs: below every rating, the default, above every rating
ApprovalThresholds == {1, 4, 6}
SkipLabel == "ai-skip-review"
LabelSets == { {"docs"}, {"docs", SkipLabel} }

\* ReviewSchema: what generateObject can return once it validated the answer
ModelRatings == {1, 4, 5}
LineRanges == { <<1, 1>>, <<2, 1>>, <<1, BeyondLine>> }
SuggestionsFor(path) ==
    { [file |-> f, line_start |-> r[1], line_end |-> r[2],
       reason |-> "reason", suggestion |-> "replacement"] :
         f \in {path, PathC}, r \in LineRanges }
ReviewSchema(path) ==
    [ rating : ModelRatings,
      summary : { <<"model summary">> },
      suggestions : {<<>>} \cup { <<g>> : g \in SuggestionsFor(path) } ]

\* a text of n copies of s
RECURSIVE Repeat(_, _)
Repeat(s, n) ==
    IF n = 0 THEN ""
    ELSE IF n % 2 = 0 THEN LET half == Repeat(s, n \div 2) IN half \o half
    ELSE s \o Repeat(s, n - 1)

\* what generateObject can throw: error.message; the last one is the long
\* message of a provider error that quotes the response it got
LongMessageLen == 476
ModelErrors ==
    {"timeout", "rate limit", "no object generated", Repeat("x", LongMessageLen)}

(***************************************************************************)
(* Pure helpers of index.ts.                                               *)
(***************************************************************************)
ToLowerCase(name) == IF name = "Anthropic" THEN "anthropic" ELSE name

\* getConfig: the fields run() uses
getConfig ==
    [ provider |-> IF inputs.provider = "" THEN "openai" ELSE inputs.provider,
      maxFiles |-> inputs.max_files,
      approvalThreshold |-> inputs.approval_threshold ]

\* getLLMProvider: TRUE when the switch finds a provider, FALSE when it throws
getLLMProvider(cfg) == ToLowerCase(cfg.provider) \in {"openai", "anthropic"}

EndsWith(s, suffix) ==
    /\ Len(s) >= Len(suffix)
    /\ SubSeq(s, Len(s) - Len(suffix) + 1, Len(s)) = suffix

filterAll(files) == files
filterMDXFiles(files) ==
    SelectSeq(files, LAMBDA f : EndsWith(f.filename, <<".", "m", "d", "x">>))

shouldSkipNever(labels) == FALSE
shouldSkipPR(labels) == SkipLabel \in labels

\* Array.prototype.slice(0, n) for n >= 0
Slice(seq, n) == SubSeq(seq, 1, IF n < Len(seq) THEN n ELSE Len(seq))

RECURSIVE Sum(_)
Sum(ns) == IF ns = <<>> THEN 0 ELSE Head(ns) + Sum(Tail(ns))

\* Math.round(sum / n) of positive integers: floor(sum / n + 1/2)
OverallTruncated(ratings) == Sum(ratings) \div Len(ratings)
OverallRating(ratings) ==
    (2 * Sum(ratings) + Len(ratings)) \div (2 * Len(ratings))

RatingsOf(rs) == [i \in 1..Len(rs) |-> rs[i].result.rating]

RECURSIVE FlatSuggestions(_)
FlatSuggestions(rs) ==
    IF rs = <<>> THEN <<>>
    ELSE Head(rs).result.suggestions \o FlatSuggestions(Tail(rs))

\* reviewFileWithLLM, catch branch: the fallback response
FallbackLowRating(message) ==
    [ rating |-> 1,
      summary |-> <<"Automated review failed: ", message>>,
      suggestions |-> <<>> ]
FallbackResult(message) ==
    [ rating |-> 3,
      summary |-> <<"Automated review failed: ", message>>,
      suggestions |-> <<>> ]

buildReviewBody(rating, rs, suggestionsCount) ==
    [ rating |-> rating,
      filesReviewed |-> Len(rs),
      totalSuggestions |-> suggestionsCount,
      lines |-> [i \in 1..Len(rs) |->
                    [file |-> rs[i].file, rating |-> rs[i].result.rating,
                     summary |-> rs[i].result.summary]],
      banner |-> IF suggestionsCount > 0 THEN "suggestions" ELSE "none" ]

\* postReview: reviewEvent
ReviewEventByRating(overallRating, approvalThreshold) ==
    IF overallRating >= approvalThreshold THEN "APPROVE" ELSE "REQUEST_CHANGES"
ReviewEvent(overallRating, approvalThreshold) ==
    IF overallRating >= approvalThreshold THEN "COMMENT" ELSE "COMMENT"

\* postReview up to the createReview call: the request it sends
ReviewRequest(rs, approvalThreshold) ==
    LET overallRating == OverallRating(RatingsOf(rs))
        allSuggestions == FlatSuggestions(rs)
    IN  [ event |-> ReviewEvent(overallRating, approvalThreshold),
          body |-> buildReviewBody(overallRating, rs, Len(allSuggestions)),
          comments |-> [i \in 1..Len(allSuggestions) |->
                           [path |-> allSuggestions[i].file,
                            line |-> allSuggestions[i].line_end,
                            body |-> <<allSuggestions[i].reason,
                                       allSuggestions[i].suggestion>>]] ]

\* run, step 8: the outputs
RunOutputsOfSelected(rs, tokens) ==
    [ rating |-> OverallRating(RatingsOf(rs)),
      files_processed |-> Len(filesToReview),
      suggestions_count |-> Len(FlatSuggestions(rs)),
      tokens_used |-> tokens,
      estimated_cost |-> (tokens + 5) \div 10 ]
RunOutputs(rs, tokens) ==
    [ rating |-> OverallRating(RatingsOf(rs)),
      files_processed |-> Len(rs),
      suggestions_count |-> Len(FlatSuggestions(rs)),
      tokens_used |-> tokens,
      \* (totalTokens * 0.00001).toFixed(4), in ten-thousandths of a dollar
      estimated_cost |-> (tokens + 5) \div 10 ]

(***************************************************************************)
(* buildPrompt.  A prompt text is a sequence of pieces; a placeholder and  *)
(* a replacement pattern ($$, $&, $`, $') are one piece each.              *)
(***************************************************************************)
PathPlaceholder == "{file_path}"
ContentPlaceholder == "{file_content}"

\* position of the first occurrence of piece in s, 0 when there is none
IndexOf(s, piece) ==
    IF \E i \in DOMAIN s : s[i] = piece
    THEN CHOOSE i \in DOMAIN s :
            s[i] = piece /\ \A j \in 1..(i - 1) : s[j] # piece
    ELSE 0

\* the replacement text of String.prototype.replace, its patterns expanded
ExpandReplacement(replacement, matched, before, after) ==
    Concat([i \in DOMAIN replacement |->
              CASE replacement[i] = "$$" -> <<"$">>
                [] replacement[i] = "$&" -> <<matched>>
                [] replacement[i] = "$`" -> before
                [] replacement[i] = "$'" -> after
                [] OTHER -> <<replacement[i]>>])

\* String.prototype.replace(pattern, replacement) with a string pattern:
\* the first occurrence only
StringReplace(s, pattern, replacement) ==
    LET i == IndexOf(s, pattern) IN
    IF i = 0 THEN s
    ELSE LET before == SubSeq(s, 1, i - 1)
             after == SubSeq(s, i + 1, Len(s))
         IN  before \o ExpandReplacement(replacement, pattern, before, after)
                    \o after

DefaultPrompt(filePath, content) ==
    <<"Review this MDX file: File: ">> \o filePath \o <<" Content: ">>
        \o content \o <<" Provide a rating (1-5) and specific suggestions">>

buildPrompt(filePath, content, customTemplate) ==
    IF customTemplate # <<>>
    THEN StringReplace(StringReplace(customTemplate, PathPlaceholder, filePath),
                       ContentPlaceholder, content)
    ELSE DefaultPrompt(filePath, content)

\* inputs of buildPrompt
Templates ==
    UNION { [1..n -> {PathPlaceholder, ContentPlaceholder, "Review: "}] :
              n \in 0..MaxTemplate }
PromptPaths == { <<"a.mdx">>, <<ContentPlaceholder, ".mdx">> }
PromptContents == { <<"text">>, <<"$$">>, <<"$&">>, <<PathPlaceholder>> }

NoConfig == [provider |-> "unset", maxFiles |-> 0, approvalThreshold |-> 0]
NoFile == [file |-> <<>>, sanitized |-> <<>>]
NoOutputs == <<>>

(***************************************************************************)
(* Initial states.                                                         *)
(***************************************************************************)
RunNotStarted(at) ==
    /\ pc = at
    /\ config = NoConfig
    /\ allFiles = <<>>
    /\ filesToReview = <<>>
    /\ idx = 0
    /\ cur = NoFile
    /\ reviews = <<>>
    /\ totalTokens = 0
    /\ warnings = <<>>
    /\ failed = "none"
    /\ outputs = NoOutputs
    /\ listCalls = 0
    /\ contentCalls = <<>>
    /\ llmCalls = <<>>
    /\ sinkCalls = <<>>

NoEnvironment ==
    /\ inputs = [api_key |-> FALSE, github_token |-> FALSE,
                 provider |-> "", max_files |-> 0, approval_threshold |-> 0]
    /\ context = [pull_request |-> FALSE, labels |-> {}]
    /\ prFiles = <<>>

Init ==
    /\ fn = "none" /\ arg = <<>> /\ ret = <<>>
    /\ inputs \in [api_key : BOOLEAN, github_token : BOOLEAN,
                   provider : Providers, max_files : 1..MaxFilesInput,
                   approval_threshold : ApprovalThresholds]
    /\ context \in {[pull_request |-> FALSE, labels |-> {}]}
                   \cup [pull_request : {TRUE}, labels : LabelSets]
    /\ prFiles \in { [i \in DOMAIN fs |-> [filename |-> fs[i]]] : fs \in FileLists }
    /\ RunNotStarted("start")

InitSanitize ==
    /\ fn = "none"
    /\ arg \in Texts
    /\ ret = <<>>
    /\ NoEnvironment
    /\ RunNotStarted("off")

InitAggregate ==
    /\ fn = "none"
    /\ arg \in UNION { [1..n -> 1..5] : n \in 1..MaxRatings }
    /\ ret = 0
    /\ NoEnvironment
    /\ RunNotStarted("off")

InitPrompt ==
    /\ fn = "none"
    /\ arg \in [template : Templates, path : PromptPaths, content : PromptContents]
    /\ ret = <<>>
    /\ NoEnvironment
    /\ RunNotStarted("off")

(***************************************************************************)
(* The utility functions applied to an input.                              *)
(***************************************************************************)
ApplySanitize ==
    /\ fn = "none"
    /\ fn' = "sanitizeContent"
    /\ ret' = sanitizeContent(arg)
    /\ UNCHANGED <<arg, envVars, runVars, callVars>>

ApplyOverallRating ==
    /\ fn = "none"
    /\ fn' = "overallRating"
    /\ ret' = OverallRating(arg)
    /\ UNCHANGED <<arg, envVars, runVars, callVars>>

(***************************************************************************)
(* run().  A state is a point where run() awaits a collaborator or has     *)
(* returned; an action is the answer of the collaborator together with     *)
(* the synchronous code that follows it up to the next await.              *)
(***************************************************************************)
Terminal ==
    pc \in {"caught", "no_pull_request", "skipped_label", "no_mdx_files",
            "none_reviewed", "done"}

InputsSupplied == inputs.api_key /\ inputs.github_token

\* getConfig throws (a required input is missing); the outer catch fails the run
GetConfigThrows ==
    /\ pc = "start"
    /\ ~InputsSupplied
    /\ pc' = "caught"
    /\ failed' = "Action failed: Input required and not supplied"
    /\ UNCHANGED <<fnVars, envVars, callVars, config, allFiles, filesToReview,
                   idx, cur, reviews, totalTokens, warnings, outputs>>

NoPullRequest ==
    /\ pc = "start"
    /\ InputsSupplied
    /\ ~context.pull_request
    /\ config' = getConfig
    /\ pc' = "no_pull_request"
    /\ failed' = "This action only works on pull_request events"
    /\ UNCHANGED <<fnVars, envVars, callVars, allFiles, filesToReview,
                   idx, cur, reviews, totalTokens, warnings, outputs>>

SkipLabelFound ==
    /\ pc = "start"
    /\ InputsSupplied
    /\ context.pull_request
    /\ shouldSkipPR(context.labels)
    /\ config' = getConfig
    /\ pc' = "skipped_label"
    /\ UNCHANGED <<fnVars, envVars, callVars, allFiles, filesToReview,
                   idx, cur, reviews, totalTokens, warnings, failed, outputs>>

CallGetChangedFiles ==
    /\ pc = "start"
    /\ InputsSupplied
    /\ context.pull_request
    /\ ~shouldSkipPR(context.labels)
    /\ config' = getConfig
    /\ listCalls' = listCalls + 1
    /\ pc' = "listFiles"
    /\ UNCHANGED <<fnVars, envVars, contentCalls, llmCalls, sinkCalls,
                   allFiles, filesToReview, idx, cur, reviews, totalTokens,
                   warnings, failed, outputs>>

ListFilesThrows ==
    /\ pc = "listFiles"
    /\ pc' = "caught"
    /\ failed' = "Action failed: listFiles"
    /\ UNCHANGED <<fnVars, envVars, callVars, config, allFiles, filesToReview,
                   idx, cur, reviews, totalTokens, warnings, outputs>>

ListFilesReturns ==
    /\ pc = "listFiles"
    /\ allFiles' = prFiles
    /\ LET mdxFiles == filterMDXFiles(prFiles) IN
       IF mdxFiles = <<>>
       THEN /\ pc' = "no_mdx_files"
            /\ UNCHANGED <<filesToReview, idx, warnings>>
       ELSE /\ filesToReview' = Slice(mdxFiles, config.maxFiles)
            /\ warnings' = IF Len(mdxFiles) > config.maxFiles
                           THEN Append(warnings, [kind |-> "cap", n |-> Len(mdxFiles)])
                           ELSE warnings
            /\ idx' = 1
            /\ pc' = "getContent"
    /\ UNCHANGED <<fnVars, envVars, callVars, config, cur, reviews,
                   totalTokens, failed, outputs>>

\* the end of one iteration of the for loop, rs being the reviews then
AfterFileSilent(rs) ==
    IF idx < Len(filesToReview)
    THEN /\ idx' = idx + 1
         /\ pc' = "getContent"
         /\ UNCHANGED failed
    ELSE /\ UNCHANGED <<idx, failed>>
         /\ pc' = IF rs = <<>> THEN "none_reviewed" ELSE "createReview"
AfterFileEarly(rs) ==
    IF rs = <<>> /\ idx < Len(filesToReview)
    THEN /\ idx' = idx + 1
         /\ pc' = "getContent"
         /\ UNCHANGED failed
    ELSE /\ UNCHANGED idx
         /\ IF rs = <<>>
            THEN /\ pc' = "none_reviewed"
                 /\ failed' = "No files could be reviewed"
            ELSE /\ pc' = "createReview"
                 /\ UNCHANGED failed
AfterFile(rs) ==
    IF idx < Len(filesToReview)
    THEN /\ idx' = idx + 1
         /\ pc' = "getContent"
         /\ UNCHANGED failed
    ELSE /\ UNCHANGED idx
         /\ IF rs = <<>>
            THEN /\ pc' = "none_reviewed"
                 /\ failed' = "No files could be reviewed"
            ELSE /\ pc' = "createReview"
                 /\ UNCHANGED failed

CurrentPath == filesToReview[idx].filename

GetContentThrows ==
    /\ pc = "getContent"
    /\ contentCalls' = Append(contentCalls,
                          [path |-> CurrentPath, ok |-> FALSE, content |-> <<>>])
    /\ warnings' = warnings \o <<[kind |-> "fetch", file |-> CurrentPath],
                                 [kind |-> "skipping", file |-> CurrentPath]>>
    /\ AfterFile(reviews)
    /\ UNCHANGED <<fnVars, envVars, listCalls, llmCalls, sinkCalls, config,
                   allFiles, filesToReview, cur, reviews, totalTokens, outputs>>

\* the loop without the await on reviewFileWithLLM: the call is started and
\* the loop goes on to the next file
GetContentReturnsNoAwait ==
    /\ pc = "getContent"
    /\ getLLMProvider(config)
    /\ \E content \in Contents :
         LET sanitized == sanitizeContent(content) IN
         /\ contentCalls' = Append(contentCalls,
                   [path |-> CurrentPath, ok |-> TRUE, content |-> content])
         /\ totalTokens' = totalTokens + estimateTokens(sanitized)
         /\ cur' = [file |-> CurrentPath, sanitized |-> sanitized]
    /\ IF idx < Len(filesToReview)
       THEN idx' = idx + 1 /\ pc' = "getContent"
       ELSE UNCHANGED idx /\ pc' = "generateObject"
    /\ UNCHANGED <<fnVars, envVars, listCalls, llmCalls, sinkCalls, config,
                   allFiles, filesToReview, reviews, warnings, failed,
                   outputs>>
\* the content arrives; it is sanitized, counted, and reviewFileWithLLM
\* reaches its generateObject call
GetContentReturns ==
    /\ pc = "getContent"
    /\ getLLMProvider(config)
    /\ \E content \in Contents :
         LET sanitized == sanitizeContent(content) IN
         /\ contentCalls' = Append(contentCalls,
                   [path |-> CurrentPath, ok |-> TRUE, content |-> content])
         /\ totalTokens' = totalTokens + estimateTokens(sanitized)
         /\ cur' = [file |-> CurrentPath, sanitized |-> sanitized]
    /\ pc' = "generateObject"
    /\ UNCHANGED <<fnVars, envVars, listCalls, llmCalls, sinkCalls, config,
                   allFiles, filesToReview, idx, reviews, warnings, failed,
                   outputs>>

\* the content arrives, and getLLMProvider throws inside reviewFileWithLLM:
\* the catch of the loop skips the file
GetContentReturnsNoProvider ==
    /\ pc = "getContent"
    /\ ~getLLMProvider(config)
    /\ \E content \in Contents :
         /\ contentCalls' = Append(contentCalls,
                   [path |-> CurrentPath, ok |-> TRUE, content |-> content])
         /\ totalTokens' = totalTokens + estimateTokens(sanitizeContent(content))
    /\ warnings' = Append(warnings, [kind |-> "skipping", file |-> CurrentPath])
    /\ AfterFile(reviews)
    /\ UNCHANGED <<fnVars, envVars, listCalls, llmCalls, sinkCalls, config,
                   allFiles, filesToReview, cur, reviews, outputs>>

GenerateObjectReturns ==
    /\ pc = "generateObject"
    /\ \E object \in ReviewSchema(cur.file) :
         LET rs == Append(reviews, [file |-> cur.file, content |-> cur.sanitized,
                                    result |-> object])
         IN  /\ reviews' = rs
             /\ AfterFile(rs)
    /\ llmCalls' = Append(llmCalls, [file |-> cur.file, content |-> cur.sanitized,
                                     threw |-> FALSE])
    /\ cur' = NoFile
    /\ UNCHANGED <<fnVars, envVars, listCalls, contentCalls, sinkCalls, config,
                   allFiles, filesToReview, totalTokens, warnings, outputs>>

GenerateObjectThrows ==
    /\ pc = "generateObject"
    /\ \E message \in ModelErrors :
         LET rs == Append(reviews, [file |-> cur.file, content |-> cur.sanitized,
                                    result |-> FallbackResult(message)])
         IN  /\ reviews' = rs
             /\ AfterFile(rs)
    /\ llmCalls' = Append(llmCalls, [file |-> cur.file, content |-> cur.sanitized,
                                     threw |-> TRUE])
    /\ cur' = NoFile
    /\ UNCHANGED <<fnVars, envVars, listCalls, contentCalls, sinkCalls, config,
                   allFiles, filesToReview, totalTokens, warnings, outputs>>

CreateReviewReturns ==
    /\ pc = "createReview"
    /\ sinkCalls' = Append(sinkCalls, [request |-> ReviewRequest(reviews, config.approvalThreshold),
                            ok |-> TRUE])
    /\ outputs' = RunOutputs(reviews, totalTokens)
    /\ pc' = "done"
    /\ UNCHANGED <<fnVars, envVars, listCalls, contentCalls, llmCalls, config,
                   allFiles, filesToReview, idx, cur, reviews, totalTokens,
                   warnings, failed>>

CreateReviewThrowsSwallowed ==
    /\ pc = "createReview"
    /\ sinkCalls' = Append(sinkCalls, [request |-> ReviewRequest(reviews, config.approvalThreshold),
                            ok |-> FALSE])
    /\ pc' = "done"
    /\ UNCHANGED <<fnVars, envVars, listCalls, contentCalls, llmCalls, config,
                   allFiles, filesToReview, idx, cur, reviews, totalTokens,
                   warnings, failed, outputs>>
CreateReviewThrows ==
    /\ pc = "createReview"
    /\ sinkCalls' = Append(sinkCalls, [request |-> ReviewRequest(reviews, config.approvalThreshold),
                            ok |-> FALSE])
    /\ failed' = "Action failed: createReview"
    /\ pc' = "caught"
    /\ UNCHANGED <<fnVars, envVars, listCalls, contentCalls, llmCalls, config,
                   allFiles, filesToReview, idx, cur, reviews, totalTokens,
                   warnings, outputs>>

Next ==
    \/ GetConfigThrows
    \/ NoPullRequest
    \/ SkipLabelFound
    \/ CallGetChangedFiles
    \/ ListFilesThrows
    \/ ListFilesReturns
    \/ GetContentThrows
    \/ GetContentReturns
    \/ GetContentReturnsNoProvider
    \/ GenerateObjectReturns
    \/ GenerateObjectThrows
    \/ CreateReviewReturns
    \/ CreateReviewThrows

Spec == Init /\ [][Next]_vars

\* every awaited call settles: it returns or it throws; the runs with the
\* default approval_threshold
InitDefaultThreshold == Init /\ inputs.approval_threshold = 4

FairSpec == InitDefaultThreshold /\ [][Next]_vars /\ WF_vars(Next)

NextSanitize == ApplySanitize

SpecSanitize == InitSanitize /\ [][NextSanitize]_vars

NextAggregate == ApplyOverallRating

SpecAggregate == InitAggregate /\ [][NextAggregate]_vars

ApplyBuildPrompt ==
    /\ fn = "none"
    /\ fn' = "buildPrompt"
    /\ ret' = buildPrompt(arg.path, arg.content, arg.template)
    /\ UNCHANGED <<arg, envVars, runVars, callVars>>

NextPrompt == ApplyBuildPrompt

SpecPrompt == InitPrompt /\ [][NextPrompt]_vars
(***************************************************************************)
(* Properties of sanitizeContent.                                          *)
(***************************************************************************)
HasKeyShape(s) == \E i \in 1..Len(s) : KeyMatchLen(s, i) > 0
HasTokenShape(s) == \E i \in 1..Len(s) : TokenMatchLen(s, i) > 0
HasBearerShape(s) == \E i \in 1..Len(s) : BearerMatchLen(s, i) > 0

\* C3: the text sanitizeContent returns has as many lines as its input.
C3_LineCountPreserved ==
    fn = "sanitizeContent" => LineCount(ret) = LineCount(arg)

\* C4: the text sanitizeContent returns holds no match of the three secret
\* shapes (a run of 32 or more key characters, ghp_ and 36 alphanumerics,
\* Bearer, whitespace and a token), and sanitizing it again changes nothing.
C4_NoSecretShapeLeft ==
    fn = "sanitizeContent" =>
        /\ ~HasKeyShape(ret)
        /\ ~HasTokenShape(ret)
        /\ ~HasBearerShape(ret)
        /\ sanitizeContent(ret) = ret

C4_Witness ==
    /\ fn = "sanitizeContent"
    /\ HasKeyShape(arg)
    /\ HasBearerShape(arg)
    /\ ret # arg

(***************************************************************************)
(* Properties of the aggregate rating.                                     *)
(***************************************************************************)
\* C6: the overall rating of a non-empty list of ratings in 1..5 is the
\* integer nearest to their mean, a tie going up, and lies in 1..5;
\* [4,5] gives 5, [4,4,3] gives 4, [3,2] gives 3.
C6_RoundedMeanHalfUp ==
    fn = "overallRating" =>
        LET n == Len(arg)
            total == Sum(arg)
        IN  /\ ret \in 1..5
            /\ n * (2 * ret - 1) <= 2 * total
            /\ 2 * total < n * (2 * ret + 1)
            /\ (arg = <<4, 5>> => ret = 5)
            /\ (arg = <<4, 4, 3>> => ret = 4)
            /\ (arg = <<3, 2>> => ret = 3)

C6_Witness ==
    /\ fn = "overallRating"
    /\ arg = <<3, 2>>
    /\ ret = 3

(***************************************************************************)
(* Properties of run().                                                    *)
(***************************************************************************)
MaxAttempts == 3

IsFallback(result) ==
    /\ result.rating = 3
    /\ result.suggestions = <<>>
    /\ result.summary[1] = "Automated review failed: "

Attempts(path) ==
    Cardinality({k \in DOMAIN llmCalls : llmCalls[k].file = path})

NoCollaboratorCalled ==
    /\ contentCalls = <<>>
    /\ llmCalls = <<>>
    /\ sinkCalls = <<>>

IsPrefix(p, t) == Len(p) <= Len(t) /\ SubSeq(t, 1, Len(p)) = p

\* C1: a file whose model call failed is in the reviews with the fallback
\* result (rating 3, no suggestion, a summary that says the review failed);
\* the run goes on to submit one review whose body lists every file that
\* reached the model, and only a failure of the submission fails the run.
C1_FallbackKeepsFileInReview ==
    /\ \A k \in DOMAIN llmCalls :
         llmCalls[k].threw =>
            \E i \in DOMAIN reviews :
               /\ reviews[i].file = llmCalls[k].file
               /\ IsFallback(reviews[i].result)
    /\ (Terminal /\ llmCalls # <<>>) =>
            /\ Len(sinkCalls) = 1
            /\ \A k \in DOMAIN llmCalls :
                 \E j \in DOMAIN sinkCalls[1].request.body.lines :
                    LET line == sinkCalls[1].request.body.lines[j] IN
                    /\ line.file = llmCalls[k].file
                    /\ llmCalls[k].threw => line.rating = 3
            /\ failed # "none" => ~sinkCalls[1].ok

C1_Witness ==
    /\ pc = "done"
    /\ \E k \in DOMAIN llmCalls : llmCalls[k].threw
    /\ \E k \in DOMAIN llmCalls : ~llmCalls[k].threw

\* C2: the fallback result of a file is produced only after 3 failed model
\* calls for that file, and no file gets more than 3 model calls.
C2_FallbackAfterThreeAttempts ==
    /\ \A i \in DOMAIN reviews :
         IsFallback(reviews[i].result) => Attempts(reviews[i].file) = MaxAttempts
    /\ \A k \in DOMAIN llmCalls : Attempts(llmCalls[k].file) <= MaxAttempts

\* C5: for every budget ceiling, the content handed to the model call is the
\* sanitized text itself when its estimate is within the ceiling, and a
\* prefix of it whose estimate is within the ceiling otherwise.
C5_ContentWithinCeiling ==
    \A k \in DOMAIN llmCalls :
      \A ceiling \in 1..MaxCeiling :
        \E c \in DOMAIN contentCalls :
          /\ contentCalls[c].path = llmCalls[k].file
          /\ contentCalls[c].ok
          /\ LET text == sanitizeContent(contentCalls[c].content)
                 handed == llmCalls[k].content
             IN  IF estimateTokens(text) <= ceiling
                 THEN handed = text
                 ELSE IsPrefix(handed, text) /\ estimateTokens(handed) <= ceiling

NoMatchingFile ==
    \A i \in DOMAIN prFiles : ~EndsWith(prFiles[i].filename, <<".", "m", "d", "x">>)

ListAnswered ==
    /\ listCalls > 0
    /\ pc # "listFiles"
    /\ failed # "Action failed: listFiles"

\* C7: once the changed-file list arrived and holds no .mdx file, the run is
\* at its no-files exit: no content was retrieved, no model was called, no
\* review was submitted, and the run is not failed.
C7_NoMatchingFilesSkips ==
    (ListAnswered /\ NoMatchingFile) =>
        /\ pc = "no_mdx_files"
        /\ NoCollaboratorCalled
        /\ failed = "none"

C7_Witness ==
    /\ pc = "no_mdx_files"
    /\ prFiles # <<>>

SkipRequested == context.pull_request /\ SkipLabel \in context.labels

\* C8 as stated: with the skip label the run lists, retrieves, reviews and
\* submits nothing, and it ends at the skip exit, not failed.
C8_SkipLabelEndsSkipped ==
    SkipRequested =>
        /\ listCalls = 0
        /\ NoCollaboratorCalled
        /\ Terminal => (pc = "skipped_label" /\ failed = "none")

\* C8 amended: with the skip label the run lists, retrieves, reviews and
\* submits nothing; it ends at the skip exit, not failed, when the required
\* inputs were supplied, and failed in the outer catch when one is missing.
C8_SkipLabelEndsSkippedWhenConfigured ==
    SkipRequested =>
        /\ listCalls = 0
        /\ NoCollaboratorCalled
        /\ pc \in {"start", "skipped_label", "caught"}
        /\ (Terminal /\ InputsSupplied) => (pc = "skipped_label" /\ failed = "none")
        /\ (Terminal /\ ~InputsSupplied) => (pc = "caught" /\ failed # "none")

C8_Witness ==
    /\ SkipRequested
    /\ pc = "skipped_label"

\* the head-revision content getContent returned for a path
HeadContents(path) ==
    { contentCalls[c].content :
        c \in {d \in DOMAIN contentCalls :
                  contentCalls[d].path = path /\ contentCalls[d].ok} }

\* C9: no submitted comment sits on a line past the end of its file's
\* current revision: such a suggestion is left out of the request.
C9_StaleSuggestionOmitted ==
    \A s \in DOMAIN sinkCalls :
      \A i \in DOMAIN sinkCalls[s].request.comments :
        LET comment == sinkCalls[s].request.comments[i] IN
        \A content \in HeadContents(comment.path) :
           comment.line <= LineCount(content)

UnsupportedProvider ==
    ToLowerCase(IF inputs.provider = "" THEN "openai" ELSE inputs.provider)
        \notin {"openai", "anthropic"}

\* C10: with an unrecognized provider nothing is listed, retrieved, reviewed
\* or submitted, and the run ends failed.
C10_UnknownProviderFailsFast ==
    (InputsSupplied /\ UnsupportedProvider) =>
        /\ listCalls = 0
        /\ NoCollaboratorCalled
        /\ Terminal => failed # "none"

\* C11: at most maxFiles files are in a submitted review, and when more
\* .mdx files changed than maxFiles the body of the review has a part that
\* records the cap breach.
C11_CapBreachInBody ==
    \A s \in DOMAIN sinkCalls :
       LET body == sinkCalls[s].request.body IN
       /\ Len(body.lines) <= config.maxFiles
       /\ Len(filterMDXFiles(allFiles)) > config.maxFiles
             => "cap_warning" \in DOMAIN body

\* C12: a posted review names, in a summary line or in a part listing the
\* omitted files, every selected file whose content could not be retrieved.
C12_OmittedFilesStated ==
    \A s \in DOMAIN sinkCalls :
       sinkCalls[s].ok =>
          LET body == sinkCalls[s].request.body IN
          \A c \in DOMAIN contentCalls :
             ~contentCalls[c].ok =>
                \/ \E j \in DOMAIN body.lines : body.lines[j].file = contentCalls[c].path
                \/ "omitted" \in DOMAIN body

AllRetrievalsFailed ==
    /\ contentCalls # <<>>
    /\ \A c \in DOMAIN contentCalls : ~contentCalls[c].ok

\* C13: while every content retrieval made has failed, no model is called
\* and no review submission is begun; when that is so for every selected
\* file, the run ends failed with 'No files could be reviewed'.
C13_AllRetrievalsFailedFailsRun ==
    AllRetrievalsFailed =>
        /\ llmCalls = <<>>
        /\ sinkCalls = <<>>
        /\ pc \in {"getContent", "none_reviewed"}
        /\ Terminal =>
              /\ Len(contentCalls) = Len(filesToReview)
              /\ failed = "No files could be reviewed"

C13_Witness ==
    /\ AllRetrievalsFailed
    /\ Len(contentCalls) = 2
    /\ pc = "none_reviewed"

\* C14: once a createReview call has failed, the run is in its outer catch,
\* failed, without outputs, and createReview was called that one time only.
C14_SinkFailureFailsRun ==
    /\ Len(sinkCalls) <= 1
    /\ (\E s \in DOMAIN sinkCalls : ~sinkCalls[s].ok) =>
          /\ pc = "caught"
          /\ failed = "Action failed: createReview"
          /\ outputs = NoOutputs

C14_Witness ==
    /\ pc = "caught"
    /\ \E s \in DOMAIN sinkCalls : ~sinkCalls[s].ok

MaxSummaryLen == 500

SummaryLen(summary) == Sum([i \in DOMAIN summary |-> Len(summary[i])])

\* C16: every review in the aggregate has a rating in 1..5 and a summary of
\* at most 500 characters.
C16_ReviewsWithinSchema ==
    \A i \in DOMAIN reviews :
       /\ reviews[i].result.rating \in 1..5
       /\ SummaryLen(reviews[i].result.summary) <= MaxSummaryLen

PostedOnce ==
    /\ Len(sinkCalls) = 1
    /\ sinkCalls[1].ok

\* C17: a run that selected a file to review reaches an exit, and there
\* either one review was posted and the run is not failed, or the run is
\* failed and no review was posted.
C17_EndsPostedOrFailed ==
    [](filesToReview # <<>> =>
         <>(/\ Terminal
            /\ \/ PostedOnce /\ failed = "none"
               \/ failed # "none" /\ \A s \in DOMAIN sinkCalls : ~sinkCalls[s].ok))

C17_Witness ==
    /\ filesToReview # <<>>
    /\ pc = "done"
    /\ PostedOnce

\* a selected file is resolved: its content could not be retrieved, or it
\* was skipped, or it has its review
Resolved(path) ==
    /\ \E c \in DOMAIN contentCalls : contentCalls[c].path = path
    /\ \/ \E c \in DOMAIN contentCalls :
             contentCalls[c].path = path /\ ~contentCalls[c].ok
       \/ \E w \in DOMAIN warnings :
             warnings[w] = [kind |-> "skipping", file |-> path]
       \/ \E i \in DOMAIN reviews : reviews[i].file = path

\* C18: when the review submission is begun or done, every selected file
\* is resolved and no retrieval or model call is pending.
C18_SubmitAfterAllResolved ==
    (pc = "createReview" \/ sinkCalls # <<>>) =>
        /\ \A i \in DOMAIN filesToReview : Resolved(filesToReview[i].filename)
        /\ cur = NoFile
        /\ Len(contentCalls) = Len(filesToReview)

C18_Witness ==
    /\ sinkCalls # <<>>
    /\ Len(filesToReview) = 2
    /\ \E c \in DOMAIN contentCalls : ~contentCalls[c].ok

\* C19: every suggestion that became a comment of a submitted review has
\* 0 < line_start <= line_end.
C19_CommentRangesOrdered ==
    \A s \in DOMAIN sinkCalls :
       \A i \in DOMAIN sinkCalls[s].request.comments :
          LET suggestion == FlatSuggestions(reviews)[i] IN
          /\ suggestion.line_start > 0
          /\ suggestion.line_start <= suggestion.line_end

(***************************************************************************)
(* Properties of buildPrompt.                                              *)
(***************************************************************************)
\* the template with every placeholder replaced, the texts put in as they are
SubstituteAll(template, filePath, content) ==
    Concat([i \in DOMAIN template |->
              CASE template[i] = PathPlaceholder -> filePath
                [] template[i] = ContentPlaceholder -> content
                [] OTHER -> <<template[i]>>])

\* C20: with a template, the prompt is the template with every path
\* placeholder replaced by the path and every content placeholder by the
\* content, the path and the content put in unchanged.
C20_TemplateSubstituted ==
    (fn = "buildPrompt" /\ arg.template # <<>>) =>
        ret = SubstituteAll(arg.template, arg.path, arg.content)

(***************************************************************************)
(* Concurrency of the model calls.  run awaits reviewFileWithLLM inside a  *)
(* for loop: one call at a time.                                           *)
(***************************************************************************)
WorkerBound == 1

\* the model calls started so far: a retrieved content with a provider
\* found reaches generateObject
StartedCalls ==
    IF getLLMProvider(config)
    THEN SelectSeq(contentCalls, LAMBDA call : call.ok)
    ELSE <<>>

\* the calls started and not settled yet
InFlight == Len(StartedCalls) - Len(llmCalls)

\* C21: at every moment the number of model calls in flight is within the
\* worker bound (one, the awaited call of the loop), the settled calls are
\* the first started ones in their order, and no file gets two model calls,
\* so no two calls for one file are ever in flight together.
C21_CallsWithinWorkerBound ==
    /\ InFlight \in 0..WorkerBound
    /\ \A k \in DOMAIN llmCalls : llmCalls[k].file = StartedCalls[k].path
    /\ \A j, k \in DOMAIN StartedCalls :
          j # k => StartedCalls[j].path # StartedCalls[k].path
    /\ (pc = "generateObject") = (InFlight = 1)

\* a second file's call is in flight after the first file's call settled
C21_Witness ==
    /\ InFlight = 1
    /\ Len(llmCalls) = 1
    /\ Len(filesToReview) = 2
    /\ llmCalls[1].file # cur.file

(***************************************************************************)
(* Where the comments of a submitted review are attached.                  *)
(***************************************************************************)
ReviewedPaths == {reviews[i].file : i \in DOMAIN reviews}

\* the comments a review of rs carries for the suggestions of rs[i]: the
\* answer for rs[i].file
CommentPathsOf(rs, i) ==
    {rs[i].result.suggestions[k].file : k \in DOMAIN rs[i].result.suggestions}

\* C22: every comment of a submitted review is attached to the path of a
\* file reviewed in this run, and the suggestions returned by the model call
\* for a file produce comments on that file only.
C22_CommentsOnReviewedFile ==
    \A c \in DOMAIN sinkCalls :
       /\ \A k \in DOMAIN sinkCalls[c].request.comments :
             sinkCalls[c].request.comments[k].path \in ReviewedPaths
       /\ \A i \in DOMAIN reviews :
             CommentPathsOf(reviews, i) \subseteq {reviews[i].file}

(***************************************************************************)
(* The outputs of the run and the review it posted.                        *)
(***************************************************************************)
Published == DOMAIN outputs # {}

\* the token estimates of the files that were reviewed
ReviewedTokens ==
    Sum([i \in DOMAIN reviews |-> estimateTokens(reviews[i].content)])

\* C23: the outputs are set only after createReview returned, never in a
\* failed run, and then they agree with the posted review: rating is the
\* rating of the body, files_processed the number of file reviews in it,
\* suggestions_count the number of comments, tokens_used the sum of the token
\* estimates of exactly the reviewed files, with estimated_cost set from it.
C23_OutputsAgreeWithReview ==
    Published =>
       /\ PostedOnce
       /\ failed = "none"
       /\ LET posted == sinkCalls[1].request IN
            /\ outputs.rating = posted.body.rating
            /\ outputs.files_processed = Len(posted.body.lines)
            /\ outputs.files_processed = posted.body.filesReviewed
            /\ outputs.suggestions_count = Len(posted.comments)
            /\ outputs.tokens_used = ReviewedTokens
            /\ outputs.estimated_cost = (ReviewedTokens + 5) \div 10
            /\ DOMAIN outputs = {"rating", "files_processed", "suggestions_count",
                                 "tokens_used", "estimated_cost"}

\* outputs published for a review of one of two selected files, the other
\* one's retrieval having failed, with one comment submitted
C23_Witness ==
    /\ Published
    /\ Len(filesToReview) = 2
    /\ outputs.files_processed = 1
    /\ outputs.suggestions_count = 1
    /\ outputs.tokens_used > 0
    /\ \E k \in DOMAIN contentCalls : ~contentCalls[k].ok

=============================================================================
